---- MODULE Spec2Model ----
(***************************************************************************)
(* Model of fire_creek_analysis.py (class FireCreekAnalysis): the five     *)
(* factor scorers, the normalizer and the priority aggregator.             *)
(*                                                                         *)
(* Numbers.  The program computes with Python/numpy floats.  A float is    *)
(* modelled as an exact rational <<n, d>> in lowest terms with d > 0, and  *)
(* the float NaN as <<0, 0>>.  NaN propagates through arithmetic and makes *)
(* every comparison false, as in IEEE arithmetic.                          *)
(*                                                                         *)
(* Geometry.  shapely geometries are represented by what the program asks  *)
(* of them: for a reference feature and a grid cell, the distance between  *)
(* them (0 exactly when they intersect) and the area of their              *)
(* intersection; for a grid cell, its area.                                *)
(***************************************************************************)
EXTENDS Integers, Sequences, FiniteSets, TLC

VARIABLES
    pc,            \* position in run_analysis, or "error" / "call"
    err,           \* the exception that ended the run ("" when none)
    weights,       \* self.weights: factor name -> float
    layers,        \* the nine reference layers (read by the scorers)
    cutting_grid,  \* self.cutting_grid: cell areas and the score columns
    call           \* a direct invocation of a helper: arguments and return value

vars == <<pc, err, weights, layers, cutting_grid, call>>

----------------------------------------------------------------------------
(* Bounds of the model *)

\* number of grid cells of the cutting grid
NCells == 3
\* longest score sequence handed to _normalize_score directly
MaxLen == 3

Cells == 1..NCells

----------------------------------------------------------------------------
(* Float arithmetic *)

Abs(x) == IF x < 0 THEN -x ELSE x

RECURSIVE GCD(_, _)
GCD(a, b) == IF b = 0 THEN a ELSE GCD(b, a % b)

\* the float n/d (d # 0), in lowest terms
Rat(n, d) ==
    LET g == GCD(Abs(n), Abs(d))
        s == IF d < 0 THEN -1 ELSE 1
    IN  <<(s * n) \div g, (s * d) \div g>>

R(n) == <<n, 1>>
NaN == <<0, 0>>
IsNaN(x) == x[2] = 0

Add(x, y) == IF IsNaN(x) \/ IsNaN(y) THEN NaN
             ELSE Rat(x[1] * y[2] + y[1] * x[2], x[2] * y[2])
Sub(x, y) == IF IsNaN(x) \/ IsNaN(y) THEN NaN
             ELSE Rat(x[1] * y[2] - y[1] * x[2], x[2] * y[2])
Mul(x, y) == IF IsNaN(x) \/ IsNaN(y) THEN NaN
             ELSE Rat(x[1] * y[1], x[2] * y[2])
\* x / y for y # 0 (callers decide what a zero divisor does)
Div(x, y) == IF IsNaN(x) \/ IsNaN(y) THEN NaN
             ELSE Rat(x[1] * y[2], x[2] * y[1])

\* comparisons: false as soon as one side is NaN
Lt(x, y) == ~IsNaN(x) /\ ~IsNaN(y) /\ x[1] * y[2] < y[1] * x[2]
Le(x, y) == ~IsNaN(x) /\ ~IsNaN(y) /\ x[1] * y[2] <= y[1] * x[2]
Eq(x, y) == ~IsNaN(x) /\ ~IsNaN(y) /\ x = y

\* Python's builtin max(a, b): b only when b > a
PyMax(a, b) == IF Lt(a, b) THEN b ELSE a

----------------------------------------------------------------------------
(* _normalize_score *)

\* np.nanmin / np.nanmax: over the entries that are not NaN
NanMin(values) ==
    LET nums == {values[i] : i \in {j \in 1..Len(values) : ~IsNaN(values[j])}}
    IN  CHOOSE m \in nums : \A v \in nums : Le(m, v)
NanMax(values) ==
    LET nums == {values[i] : i \in {j \in 1..Len(values) : ~IsNaN(values[j])}}
    IN  CHOOSE m \in nums : \A v \in nums : Le(v, m)

\* a mutant of NormalizeScore: the flat case returns zeros
NormalizeScoreFlatZero(values, inverse) ==
    LET n == Len(values) IN
    IF n = 0 \/ \A i \in 1..n : IsNaN(values[i]) THEN [i \in 1..n |-> R(0)]
    ELSE LET min_val == NanMin(values)
             max_val == NanMax(values)
         IN  IF max_val = min_val THEN [i \in 1..n |-> R(0)]
             ELSE IF inverse
                  THEN [i \in 1..n |->
                          Sub(R(10), Mul(Div(Sub(values[i], min_val),
                                             Sub(max_val, min_val)), R(10)))]
                  ELSE [i \in 1..n |->
                          Mul(Div(Sub(values[i], min_val),
                                  Sub(max_val, min_val)), R(10))]

\* a mutant of NormalizeScore: the inverse flag is ignored
NormalizeScoreNoInverse(values, inverse) ==
    LET n == Len(values) IN
    IF n = 0 \/ \A i \in 1..n : IsNaN(values[i]) THEN [i \in 1..n |-> R(0)]
    ELSE LET min_val == NanMin(values)
             max_val == NanMax(values)
         IN  IF max_val = min_val THEN [i \in 1..n |-> Rat(5, 1)]
             ELSE [i \in 1..n |->
                     Mul(Div(Sub(values[i], min_val),
                             Sub(max_val, min_val)), R(10))]

NormalizeScore(values, inverse) ==
    LET n == Len(values) IN
    IF n = 0 \/ \A i \in 1..n : IsNaN(values[i]) THEN [i \in 1..n |-> R(0)]
    ELSE LET min_val == NanMin(values)
             max_val == NanMax(values)
         IN  IF max_val = min_val THEN [i \in 1..n |-> Rat(5, 1)]
             ELSE IF inverse
                  THEN [i \in 1..n |->
                          Sub(R(10), Mul(Div(Sub(values[i], min_val),
                                             Sub(max_val, min_val)), R(10)))]
                  ELSE [i \in 1..n |->
                          Mul(Div(Sub(values[i], min_val),
                                  Sub(max_val, min_val)), R(10))]

----------------------------------------------------------------------------
(* Attribute resolution (the "for col in feature.index" loops) *)

\* longest attribute list of a feature handed to a resolver directly
MaxAttrs == 2

\* str.lower() on one character
Lower(ch) ==
    CASE ch = "A" -> "a" [] ch = "B" -> "b" [] ch = "C" -> "c" [] ch = "D" -> "d"
      [] ch = "E" -> "e" [] ch = "F" -> "f" [] ch = "G" -> "g" [] ch = "H" -> "h"
      [] ch = "I" -> "i" [] ch = "J" -> "j" [] ch = "K" -> "k" [] ch = "L" -> "l"
      [] ch = "M" -> "m" [] ch = "N" -> "n" [] ch = "O" -> "o" [] ch = "P" -> "p"
      [] ch = "Q" -> "q" [] ch = "R" -> "r" [] ch = "S" -> "s" [] ch = "T" -> "t"
      [] ch = "U" -> "u" [] ch = "V" -> "v" [] ch = "W" -> "w" [] ch = "X" -> "x"
      [] ch = "Y" -> "y" [] ch = "Z" -> "z" [] OTHER -> ch

\* col.lower(): a column name is a sequence of characters
LowerName(name) == [i \in 1..Len(name) |-> Lower(name[i])]

\* token in text (Python's substring test)
Contains(text, token) ==
    \E k \in 0..(Len(text) - Len(token)) :
        \A i \in 1..Len(token) : text[k + i] = token[i]

\* the condition of the if inside the column loop: "t1" in col.lower() or ...
NameMatches(col, tokens) == \E t \in tokens : Contains(LowerName(col), t)

\* Values a column of a feature row can hold:
\*   num   a finite number (int, float, or text that reads as one)
\*   nan   the float NaN (how a null numeric field is loaded; also the text "nan")
\*   none  None (a null text field)
\*   text  text that is no number
\*   geom  the geometry object of the row
Num(r)   == [kind |-> "num", val |-> r]
NanValue == [kind |-> "nan", val |-> NaN]
NoneValue == [kind |-> "none", val |-> NaN]
TextValue == [kind |-> "text", val |-> NaN]
GeomValue == [kind |-> "geom", val |-> NaN]

\* float(v): the value, or an exception (TypeError / ValueError)
PyFloat(v) ==
    CASE v.kind = "num"  -> [ok |-> TRUE,  val |-> v.val]
      [] v.kind = "nan"  -> [ok |-> TRUE,  val |-> NaN]
      [] OTHER           -> [ok |-> FALSE, val |-> NaN]

\* The column loop: the first column, in row order, whose name matches and
\* whose value float() accepts (break); a value float() rejects is skipped
\* (except: continue); the initial value when the loop ends without a break.
RECURSIVE ResolveFrom(_, _, _, _)
ResolveFrom(attrs, i, tokens, initial) ==
    IF i > Len(attrs) THEN initial
    ELSE IF NameMatches(attrs[i].name, tokens) /\ PyFloat(attrs[i].value).ok
         THEN PyFloat(attrs[i].value).val
         ELSE ResolveFrom(attrs, i + 1, tokens, initial)

MortalityTokens == {<<"m","o","r","t">>, <<"v","a","l","u","e">>, <<"r","a","t","e">>}
CommunityTokens == {<<"i","m","p","o","r","t">>, <<"p","r","i","o","r">>,
                    <<"w","e","i","g","h","t">>}
EgressTokens    == {<<"p","r","i","o","r">>, <<"i","m","p","o","r","t">>,
                    <<"c","l","a","s","s">>}
PopulationTokens == {<<"p","o","p">>, <<"d","e","n","s">>,
                     <<"p","e","o","p","l","e">>}

MortalityValue(attrs) == ResolveFrom(attrs, 1, MortalityTokens, R(0))
Importance(attrs)     == ResolveFrom(attrs, 1, CommunityTokens, R(10))
RoutePriority(attrs)  == ResolveFrom(attrs, 1, EgressTokens, R(10))
PopDensity(attrs)     == ResolveFrom(attrs, 1, PopulationTokens, R(10))

----------------------------------------------------------------------------
(* State shared by the specifications *)

Factors == {"tree_mortality", "community_features", "egress_routes",
            "populated_areas", "electric_utilities"}

\* __init__: self.weights
DefaultWeights ==
    [f \in Factors |->
        CASE f = "tree_mortality"     -> Rat(25, 100)
          [] f = "community_features" -> Rat(20, 100)
          [] f = "egress_routes"      -> Rat(20, 100)
          [] f = "populated_areas"    -> Rat(20, 100)
          [] f = "electric_utilities" -> Rat(15, 100)]

LayerNames == {"tree_mortality", "community_features", "egress_routes",
               "populated_areas", "transmission", "sub_transmission",
               "dist_circuits", "substations", "pole_top_subs"}

\* __init__: every layer is None
NoLayers == [l \in LayerNames |-> <<>>]

\* __init__: self.cutting_grid is None.  A column that does not exist yet is <<>>.
NoGrid == [area |-> <<>>,
           score |-> [f \in Factors |-> <<>>],
           norm |-> [f \in Factors |-> <<>>],
           overall_priority |-> <<>>, priority_normalized |-> <<>>,
           priority_class |-> <<>>, priority_rank |-> <<>>]

NoCall == [fn |-> "", values |-> <<>>, inverse |-> FALSE, attrs |-> <<>>,
           ret |-> <<>>, done |-> FALSE]

SeqsUpTo(S, n) == UNION {[1..k -> S] : k \in 0..n}

----------------------------------------------------------------------------
(* Direct invocations of the helpers *)

\* the scores handed to _normalize_score
ScoreValues == {NaN, R(-2), R(0), Rat(5, 2), R(4)}

InitNormalize ==
    /\ pc = "call"
    /\ err = ""
    /\ weights = DefaultWeights
    /\ layers = NoLayers
    /\ cutting_grid = NoGrid
    /\ \E vs \in SeqsUpTo(ScoreValues, MaxLen), inv \in BOOLEAN :
          call = [NoCall EXCEPT !.fn = "_normalize_score",
                                !.values = vs, !.inverse = inv]

\* ret = self._normalize_score(values, inverse); np.array(values, dtype=float)
\* copies, so the caller's sequence stays as it was
NormalizeScoreCall ==
    /\ pc = "call"
    /\ call.fn = "_normalize_score"
    /\ ~call.done
    /\ call' = [call EXCEPT !.ret = NormalizeScore(call.values, call.inverse),
                            !.done = TRUE]
    /\ UNCHANGED <<pc, err, weights, layers, cutting_grid>>

SpecNormalize == InitNormalize /\ [][NormalizeScoreCall]_vars

\* the column names of the feature rows
ColumnNames == {<<"M","o","r","t">>, <<"I","M","P","O","R","T">>,
                <<"C","l","a","s","s">>, <<"P","O","P">>,
                <<"n","a","m","e">>}
ColumnValues == {Num(R(3)), Num(R(7)), NanValue, NoneValue, TextValue}
Columns == {[name |-> n, value |-> v] : n \in ColumnNames, v \in ColumnValues}
        \cup {[name |-> <<"g","e","o","m","e","t","r","y">>, value |-> GeomValue]}

Resolvers == {"mortality_value", "importance", "priority", "pop_density"}

InitResolve ==
    /\ pc = "call"
    /\ err = ""
    /\ weights = DefaultWeights
    /\ layers = NoLayers
    /\ cutting_grid = NoGrid
    /\ \E as \in SeqsUpTo(Columns, MaxAttrs), fn \in Resolvers :
          call = [NoCall EXCEPT !.fn = fn, !.attrs = as]

\* one pass of a scorer's column loop over one feature row
ResolveCall ==
    /\ pc = "call"
    /\ call.fn \in Resolvers
    /\ ~call.done
    /\ call' = [call EXCEPT
          !.ret = << CASE call.fn = "mortality_value" -> MortalityValue(call.attrs)
                       [] call.fn = "importance"      -> Importance(call.attrs)
                       [] call.fn = "priority"        -> RoutePriority(call.attrs)
                       [] call.fn = "pop_density"     -> PopDensity(call.attrs) >>,
          !.done = TRUE]
    /\ UNCHANGED <<pc, err, weights, layers, cutting_grid>>

SpecResolve == InitResolve /\ [][ResolveCall]_vars

----------------------------------------------------------------------------
(* The scorers *)

\* A feature row of a reference layer: its columns, and for every grid cell
\* the distance to the cell and the area of the intersection with it.
\* grid_cell.geometry.intersects(feature.geometry)
Intersects(feature, c) == feature.dist[c] = 0

\* calculate_tree_mortality_score: the loop over the overlapping features
RECURSIVE MortalityLoop(_, _, _, _, _)
MortalityLoop(overlaps, c, i, weighted_mortality, total_intersection_area) ==
    IF i > Len(overlaps) THEN <<weighted_mortality, total_intersection_area>>
    ELSE LET intersection_area == R(overlaps[i].iarea[c])
             mortality_value == MortalityValue(overlaps[i].attrs)
         IN  MortalityLoop(overlaps, c, i + 1,
                 Add(weighted_mortality, Mul(mortality_value, intersection_area)),
                 Add(total_intersection_area, intersection_area))

\* calculate_tree_mortality_score: the score of one grid cell
MortalityCellScore(layer, c) ==
    LET overlaps == SelectSeq(layer, LAMBDA f : Intersects(f, c)) IN
    IF Len(overlaps) > 0
    THEN LET acc == MortalityLoop(overlaps, c, 1, R(0), R(0)) IN
         IF Lt(R(0), acc[2]) THEN Div(acc[1], acc[2]) ELSE R(0)
    ELSE R(0)

\* calculate_community_score: the distance-based score of one feature
CommunityFeatureScore(feature, c) ==
    LET distance == R(feature.dist[c])
        importance == Importance(feature.attrs)
    IN  IF Eq(distance, R(0)) \/ Intersects(feature, c) THEN importance
        ELSE IF Lt(distance, R(100))
             THEN Mul(importance, Sub(R(1), Div(distance, R(100))))
        ELSE IF Lt(distance, R(300))
             THEN Mul(Mul(importance, Rat(1, 2)),
                      Sub(R(1), Div(Sub(distance, R(100)), R(200))))
        ELSE R(0)

\* a mutant of EgressRouteScore: the extended buffer is not halved
EgressRouteScoreNoHalf(route, c) ==
    LET distance == R(route.dist[c])
        priority == RoutePriority(route.attrs)
    IN  IF Eq(distance, R(0)) \/ Intersects(route, c) THEN priority
        ELSE IF Lt(distance, R(50))
             THEN Mul(priority, Sub(R(1), Div(distance, R(50))))
        ELSE IF Lt(distance, R(150))
             THEN Mul(priority, Sub(R(1), Div(Sub(distance, R(50)), R(100))))
        ELSE R(0)

\* calculate_egress_score: the distance-based score of one route
EgressRouteScore(route, c) ==
    LET distance == R(route.dist[c])
        priority == RoutePriority(route.attrs)
    IN  IF Eq(distance, R(0)) \/ Intersects(route, c) THEN priority
        ELSE IF Lt(distance, R(50))
             THEN Mul(priority, Sub(R(1), Div(distance, R(50))))
        ELSE IF Lt(distance, R(150))
             THEN Mul(Mul(priority, Rat(1, 2)),
                      Sub(R(1), Div(Sub(distance, R(50)), R(100))))
        ELSE R(0)

\* calculate_utility_score: the distance-based score of one utility feature
UtilityFeatureScore(utility, base_priority, c) ==
    LET distance == R(utility.dist[c])
    IN  IF Eq(distance, R(0)) \/ Intersects(utility, c) THEN R(base_priority)
        ELSE IF Lt(distance, R(30))
             THEN Mul(R(base_priority), Sub(R(1), Div(distance, R(30))))
        ELSE IF Lt(distance, R(100))
             THEN Mul(Mul(R(base_priority), Rat(1, 2)),
                      Sub(R(1), Div(Sub(distance, R(30)), R(70))))
        ELSE R(0)

\* a mutant of MaxLoop: the scores accumulate
RECURSIVE MaxLoopSum(_, _, _)
MaxLoopSum(scores, i, max_score) ==
    IF i > Len(scores) THEN max_score
    ELSE MaxLoopSum(scores, i + 1, Add(max_score, scores[i]))

\* max_score = max(max_score, score) over a sequence of scores, from max_score
RECURSIVE MaxLoop(_, _, _)
MaxLoop(scores, i, max_score) ==
    IF i > Len(scores) THEN max_score
    ELSE MaxLoop(scores, i + 1, PyMax(max_score, scores[i]))

\* calculate_community_score: the score of one grid cell
CommunityCellScore(layer, c) ==
    MaxLoop([i \in 1..Len(layer) |-> CommunityFeatureScore(layer[i], c)], 1, R(0))

\* calculate_egress_score: the score of one grid cell
EgressCellScore(layer, c) ==
    MaxLoop([i \in 1..Len(layer) |-> EgressRouteScore(layer[i], c)], 1, R(0))

\* calculate_utility_score: utility_layers, in the order of the list
UtilityLayers == << [layer |-> "transmission",     base_priority |-> 10],
                    [layer |-> "sub_transmission", base_priority |-> 8],
                    [layer |-> "dist_circuits",    base_priority |-> 6],
                    [layer |-> "substations",      base_priority |-> 10],
                    [layer |-> "pole_top_subs",    base_priority |-> 7] >>

\* calculate_utility_score: the loop over the utility layers, from layer k
RECURSIVE UtilityLoop(_, _, _, _)
UtilityLoop(ls, c, k, max_score) ==
    IF k > Len(UtilityLayers) THEN max_score
    ELSE LET layer == ls[UtilityLayers[k].layer]
             scores == [i \in 1..Len(layer) |->
                          UtilityFeatureScore(layer[i],
                                              UtilityLayers[k].base_priority, c)]
         IN  UtilityLoop(ls, c, k + 1, MaxLoop(scores, 1, max_score))

\* calculate_utility_score: the score of one grid cell
UtilityCellScore(ls, c) == UtilityLoop(ls, c, 1, R(0))

\* calculate_population_score: does the division by the cell's area fail?
PopulationDivides(layer, area, c) ==
    \A i \in 1..Len(layer) : Intersects(layer[i], c) => area[c] # 0

\* a mutant of PopulationLoop: the largest contribution instead of their sum
RECURSIVE PopulationLoopMax(_, _, _, _, _)
PopulationLoopMax(layer, area, c, i, total_score) ==
    IF i > Len(layer) THEN total_score
    ELSE IF Intersects(layer[i], c)
         THEN LET ratio == Div(R(layer[i].iarea[c]), R(area[c]))
                  pop_density == PopDensity(layer[i].attrs)
              IN  PopulationLoopMax(layer, area, c, i + 1,
                                    PyMax(total_score, Mul(ratio, pop_density)))
         ELSE PopulationLoopMax(layer, area, c, i + 1, total_score)

\* calculate_population_score: the loop over the populated areas of one cell
RECURSIVE PopulationLoop(_, _, _, _, _)
PopulationLoop(layer, area, c, i, total_score) ==
    IF i > Len(layer) THEN total_score
    ELSE IF Intersects(layer[i], c)
         THEN LET ratio == Div(R(layer[i].iarea[c]), R(area[c]))
                  pop_density == PopDensity(layer[i].attrs)
              IN  PopulationLoop(layer, area, c, i + 1,
                                 Add(total_score, Mul(ratio, pop_density)))
         ELSE PopulationLoop(layer, area, c, i + 1, total_score)

\* calculate_population_score: the score of one grid cell
PopulationCellScore(layer, area, c) == PopulationLoop(layer, area, c, 1, R(0))

\* a mutant of SetScores: the normalization starts before the last cell's raw
\* score is in (it is still 0)
SetScoresEarly(grid, f, scores) ==
    [grid EXCEPT !.score[f] = scores,
                 !.norm[f] = NormalizeScore(
                     [c \in 1..Len(scores) |->
                         IF c = Len(scores) THEN R(0) ELSE scores[c]], FALSE)]

\* a mutant of SetScores: one normalized column shared by the five factors
SetScoresShared(grid, f, scores) ==
    [grid EXCEPT !.score[f] = scores,
                 !.norm = [g \in DOMAIN grid.norm |->
                              IF g = f \/ Len(grid.norm[g]) > 0
                              THEN NormalizeScore(scores, FALSE) ELSE grid.norm[g]]]

\* self.cutting_grid["<f>_score"] = scores
\* self.cutting_grid["<f>_score_norm"] = self._normalize_score(scores)
SetScores(grid, f, scores) ==
    [grid EXCEPT !.score[f] = scores, !.norm[f] = NormalizeScore(scores, FALSE)]

----------------------------------------------------------------------------
(* calculate_overall_priority *)

\* the weighted sum of the five normalized columns, for one cell
WeightedSum(grid, w, c) ==
    Add(Add(Add(Add(Mul(grid.norm["tree_mortality"][c], w["tree_mortality"]),
                    Mul(grid.norm["community_features"][c], w["community_features"])),
                Mul(grid.norm["egress_routes"][c], w["egress_routes"])),
            Mul(grid.norm["populated_areas"][c], w["populated_areas"])),
        Mul(grid.norm["electric_utilities"][c], w["electric_utilities"]))

Bins == <<R(0), R(2), R(4), R(6), R(8), R(10)>>
Labels == <<"Very Low", "Low", "Medium", "High", "Very High">>

\* a mutant of PdCut: right=False, the bins closed on the left
PdCutLeftClosed(x) ==
    LET ids == Cardinality({k \in 1..Len(Bins) : Le(Bins[k], x)})
    IN  IF IsNaN(x) \/ ids = Len(Bins) \/ ids = 0 THEN "NaN" ELSE Labels[ids]

\* pd.cut(x, bins, labels, include_lowest=True) with right=True (the default):
\* bins.searchsorted(x, side="left"), the lowest edge moved into the first bin,
\* and no label (NaN) for a value outside the bins or NaN
PdCut(x) ==
    LET searchsorted == Cardinality({k \in 1..Len(Bins) : Lt(Bins[k], x)})
        ids == IF Eq(x, Bins[1]) THEN 1 ELSE searchsorted
    IN  IF IsNaN(x) \/ ids = Len(Bins) \/ ids = 0 THEN "NaN" ELSE Labels[ids]

\* a mutant of DenseRank: method="min", a tied group uses up its ranks
MinRank(values, c) ==
    1 + Cardinality({k \in 1..Len(values) : Lt(values[c], values[k])})

\* Series.rank(ascending=False, method="dense") of entry c (not NaN)
DenseRank(values, c) ==
    1 + Cardinality({values[j] : j \in {k \in 1..Len(values) : Lt(values[c], values[k])}})

----------------------------------------------------------------------------
(* run_analysis *)

GridCells(grid) == 1..Len(grid.area)

\* self.calculate_tree_mortality_score()
CalculateTreeMortalityScore ==
    /\ pc = "mortality"
    /\ cutting_grid' = SetScores(cutting_grid, "tree_mortality",
           [c \in GridCells(cutting_grid) |->
               MortalityCellScore(layers["tree_mortality"], c)])
    /\ pc' = "community"
    /\ UNCHANGED <<err, weights, layers, call>>

\* self.calculate_community_score()
CalculateCommunityScore ==
    /\ pc = "community"
    /\ cutting_grid' = SetScores(cutting_grid, "community_features",
           [c \in GridCells(cutting_grid) |->
               CommunityCellScore(layers["community_features"], c)])
    /\ pc' = "egress"
    /\ UNCHANGED <<err, weights, layers, call>>

\* self.calculate_egress_score()
CalculateEgressScore ==
    /\ pc = "egress"
    /\ cutting_grid' = SetScores(cutting_grid, "egress_routes",
           [c \in GridCells(cutting_grid) |->
               EgressCellScore(layers["egress_routes"], c)])
    /\ pc' = "population"
    /\ UNCHANGED <<err, weights, layers, call>>

\* self.calculate_population_score(): intersection.area / grid_cell.geometry.area
\* divides two Python floats, so a zero cell area raises ZeroDivisionError, which
\* nothing catches: the run ends before the population columns are written
CalculatePopulationScore ==
    /\ pc = "population"
    /\ IF \A c \in GridCells(cutting_grid) :
             PopulationDivides(layers["populated_areas"], cutting_grid.area, c)
       THEN /\ cutting_grid' = SetScores(cutting_grid, "populated_areas",
                   [c \in GridCells(cutting_grid) |->
                       PopulationCellScore(layers["populated_areas"],
                                           cutting_grid.area, c)])
            /\ pc' = "utility"
            /\ err' = err
       ELSE /\ cutting_grid' = cutting_grid
            /\ pc' = "error"
            /\ err' = "ZeroDivisionError"
    /\ UNCHANGED <<weights, layers, call>>

\* self.calculate_utility_score()
CalculateUtilityScore ==
    /\ pc = "utility"
    /\ cutting_grid' = SetScores(cutting_grid, "electric_utilities",
           [c \in GridCells(cutting_grid) |-> UtilityCellScore(layers, c)])
    /\ pc' = "overall"
    /\ UNCHANGED <<err, weights, layers, call>>

\* self.calculate_overall_priority(): the weighted sum, its normalization, the
\* classes and the ranks.  .astype(int) raises (IntCastingNaNError) when a rank
\* is NaN, that is when a normalized priority is NaN; the three columns
\* assigned before it stay.
CalculateOverallPriority ==
    /\ pc = "overall"
    /\ LET cells == GridCells(cutting_grid)
           overall == [c \in cells |-> WeightedSum(cutting_grid, weights, c)]
           normalized == NormalizeScore(overall, FALSE)
           classes == [c \in cells |-> PdCut(normalized[c])]
           g == [cutting_grid EXCEPT !.overall_priority = overall,
                                     !.priority_normalized = normalized,
                                     !.priority_class = classes]
       IN  IF \E c \in cells : IsNaN(normalized[c])
           THEN /\ cutting_grid' = g
                /\ pc' = "error"
                /\ err' = "IntCastingNaNError"
           ELSE /\ cutting_grid' =
                      [g EXCEPT !.priority_rank =
                          [c \in cells |-> DenseRank(normalized, c)]]
                /\ pc' = "done"
                /\ err' = err
    /\ UNCHANGED <<weights, layers, call>>

----------------------------------------------------------------------------
(* The data of a run *)

\* the row of a feature without attribute columns
GeometryColumn == [name |-> <<"g","e","o","m","e","t","r","y">>, value |-> GeomValue]

\* a feature that covers the cells k, k+1, ... and is 400 m away from the others
Covering(attrs, k, area) ==
    [attrs |-> attrs,
     dist  |-> [c \in 1..Len(area) |-> IF c >= k THEN 0 ELSE 400],
     iarea |-> [c \in 1..Len(area) |-> IF c >= k THEN area[c] ELSE 0]]

\* the grids of a run: every cell of area 100, or cell 1 degenerate (area 0)
Grids == {[c \in Cells |-> 100], [c \in Cells |-> IF c = 1 THEN 0 ELSE 100]}

\* a layer of a run: no feature, or one feature covering the cells from k on
RunLayers(attrs, area) == {<<>>} \cup {<<Covering(attrs, k, area)>> : k \in Cells}

MortalityRunLayers(area) ==
    RunLayers(<<[name |-> <<"M","o","r","t">>, value |-> Num(R(7))], GeometryColumn>>, area)
    \cup {<<Covering(<<[name |-> <<"M","o","r","t">>, value |-> NanValue], GeometryColumn>>,
                     NCells, area)>>}

\* the utility feature of a run lies in the k-th utility layer (modulo their number)
UtilityRunLayers(area) ==
    {[l \in {UtilityLayers[i].layer : i \in 1..Len(UtilityLayers)} |-> <<>>]}
    \cup {[l \in {UtilityLayers[i].layer : i \in 1..Len(UtilityLayers)} |->
             IF l = UtilityLayers[((k - 1) % Len(UtilityLayers)) + 1].layer
             THEN <<Covering(<<GeometryColumn>>, k, area)>> ELSE <<>>] : k \in Cells}

\* weight sets a caller can put into self.weights: summing to 0.95, and
\* summing to 1.0 with a weight of 0
WeightChoices ==
    {[DefaultWeights EXCEPT !["tree_mortality"] = Rat(20, 100)],
     [DefaultWeights EXCEPT !["tree_mortality"] = Rat(40, 100),
                            !["electric_utilities"] = R(0)]}

\* after FireCreekAnalysis(data_dir, output_dir)
Init ==
    /\ pc = "init"
    /\ err = ""
    /\ weights = DefaultWeights
    /\ layers = NoLayers
    /\ cutting_grid = NoGrid
    /\ call = NoCall

\* analysis.weights = {...}: the attribute is public and nothing checks it
ConfigureWeights ==
    /\ pc = "init"
    /\ \E w \in WeightChoices : weights' = w
    /\ pc' = "configured"
    /\ UNCHANGED <<err, layers, cutting_grid, call>>

\* run_analysis: self.load_data()
LoadData ==
    /\ pc \in {"init", "configured"}
    /\ \E area \in Grids :
       \E m \in MortalityRunLayers(area),
          cf \in RunLayers(<<GeometryColumn>>, area),
          e \in {<<>>, <<Covering(<<GeometryColumn>>, NCells, area)>>},
          p \in RunLayers(<<GeometryColumn>>, area),
          u \in UtilityRunLayers(area) :
          /\ cutting_grid' = [NoGrid EXCEPT !.area = area]
          /\ layers' = [l \in LayerNames |->
                          CASE l = "tree_mortality"     -> m
                            [] l = "community_features" -> cf
                            [] l = "egress_routes"      -> e
                            [] l = "populated_areas"    -> p
                            [] OTHER                    -> u[l]]
    /\ pc' = "mortality"
    /\ UNCHANGED <<err, weights, call>>

Next ==
    \/ ConfigureWeights
    \/ LoadData
    \/ CalculateTreeMortalityScore
    \/ CalculateCommunityScore
    \/ CalculateEgressScore
    \/ CalculatePopulationScore
    \/ CalculateUtilityScore
    \/ CalculateOverallPriority

Spec == Init /\ [][Next]_vars

----------------------------------------------------------------------------
(* One scorer on its own, after load_data *)

\* most features in the layer of the scorer under study
MaxFeatures == 2

\* A feature placed relative to the grid: cell c sees the (g + c)-th of the
\* options (cyclically), each a distance and an intersection area.
Placed(attrs, options, g, n) ==
    [attrs |-> attrs,
     dist  |-> [c \in 1..n |-> options[((g + c) % Len(options)) + 1].dist],
     iarea |-> [c \in 1..n |-> options[((g + c) % Len(options)) + 1].iarea]]

Away(d) == [dist |-> d, iarea |-> 0]
Overlap(a) == [dist |-> 0, iarea |-> a]

\* a loaded grid of cells of area 100 without score columns
PlainGrid == [NoGrid EXCEPT !.area = [c \in Cells |-> 100]]

MortalityRows == {<<GeometryColumn>>,
                  <<[name |-> <<"M","o","r","t">>, value |-> Num(R(4))], GeometryColumn>>,
                  <<[name |-> <<"M","o","r","t">>, value |-> Num(R(8))], GeometryColumn>>,
                  <<[name |-> <<"M","o","r","t">>, value |-> NanValue], GeometryColumn>>}

\* apart, touching in a point, overlapping over 60 and over 40 of the cell's 100
MortalityPlaces == <<Away(400), Overlap(0), Overlap(60), Overlap(40)>>

MortalityFeatures ==
    {Placed(row, MortalityPlaces, g, NCells) :
        row \in MortalityRows, g \in 1..Len(MortalityPlaces)}

InitMortality ==
    /\ pc = "mortality"
    /\ err = ""
    /\ weights = DefaultWeights
    /\ call = NoCall
    /\ cutting_grid = PlainGrid
    /\ \E layer \in SeqsUpTo(MortalityFeatures, MaxFeatures) :
          layers = [NoLayers EXCEPT !["tree_mortality"] = layer]

SpecMortality == InitMortality /\ [][CalculateTreeMortalityScore]_vars

ImportanceRows == {<<GeometryColumn>>,
                   <<[name |-> <<"I","M","P","O","R","T">>, value |-> Num(R(7))], GeometryColumn>>,
                   <<[name |-> <<"I","M","P","O","R","T">>, value |-> Num(R(-5))], GeometryColumn>>,
                   <<[name |-> <<"I","M","P","O","R","T">>, value |-> NanValue], GeometryColumn>>}

PriorityRows == {<<GeometryColumn>>,
                 <<[name |-> <<"C","l","a","s","s">>, value |-> Num(R(7))], GeometryColumn>>,
                 <<[name |-> <<"C","l","a","s","s">>, value |-> Num(R(-5))], GeometryColumn>>,
                 <<[name |-> <<"C","l","a","s","s">>, value |-> NanValue], GeometryColumn>>}

\* distances (m) around the radii of each scorer
CommunityPlaces == <<Away(0), Away(50), Away(100), Away(200), Away(300), Away(400)>>
EgressPlaces    == <<Away(0), Away(25), Away(50), Away(100), Away(150), Away(400)>>
UtilityPlaces   == <<Away(0), Away(15), Away(30), Away(65), Away(100)>>

CommunityFeatures ==
    {Placed(row, CommunityPlaces, g, NCells) :
        row \in ImportanceRows, g \in 1..Len(CommunityPlaces)}
EgressFeatures ==
    {Placed(row, EgressPlaces, g, NCells) :
        row \in PriorityRows, g \in 1..Len(EgressPlaces)}

UtilityLayerNames == {UtilityLayers[k].layer : k \in 1..Len(UtilityLayers)}

\* utility features, each with the layer it belongs to
UtilityFeatures ==
    {[layer |-> l, feature |-> Placed(<<GeometryColumn>>, UtilityPlaces, g, NCells)] :
        l \in UtilityLayerNames, g \in 1..Len(UtilityPlaces)}

\* the rows of us that belong to layer l, in order
RECURSIVE RowsOf(_, _)
RowsOf(us, l) ==
    IF us = <<>> THEN <<>>
    ELSE IF us[1].layer = l THEN <<us[1].feature>> \o RowsOf(Tail(us), l)
    ELSE RowsOf(Tail(us), l)

InitProximity ==
    /\ err = ""
    /\ weights = DefaultWeights
    /\ call = NoCall
    /\ cutting_grid = PlainGrid
    /\ \/ /\ pc = "community"
          /\ \E layer \in SeqsUpTo(CommunityFeatures, MaxFeatures) :
                layers = [NoLayers EXCEPT !["community_features"] = layer]
       \/ /\ pc = "egress"
          /\ \E layer \in SeqsUpTo(EgressFeatures, MaxFeatures) :
                layers = [NoLayers EXCEPT !["egress_routes"] = layer]
       \/ /\ pc = "utility"
          /\ \E us \in SeqsUpTo(UtilityFeatures, MaxFeatures) :
                layers = [l \in LayerNames |->
                            IF l \in UtilityLayerNames THEN RowsOf(us, l) ELSE <<>>]

SpecProximity ==
    InitProximity
    /\ [][CalculateCommunityScore \/ CalculateEgressScore \/ CalculateUtilityScore]_vars

----------------------------------------------------------------------------
(* Properties *)

Sum5(w) == Add(Add(Add(Add(w["tree_mortality"], w["community_features"]),
                       w["egress_routes"]), w["populated_areas"]),
               w["electric_utilities"])

\* a weight set the specification accepts: all positive, summing to 1.0
WeightsValid(w) == Eq(Sum5(w), R(1)) /\ \A f \in Factors : Lt(R(0), w[f])

\* some scorer has written its columns
ScoringBegun == \E f \in Factors : Len(cutting_grid.score[f]) > 0

\* C1 (as claimed): weights are validated before scoring begins, so no scorer
\* and no aggregation step ever runs with a weight set that does not sum to
\* 1.0 or that holds a non-positive weight; the default weight set is accepted.
C1_InvalidWeightsRejected ==
    /\ WeightsValid(DefaultWeights)
    /\ (ScoringBegun \/ pc = "done") => WeightsValid(weights)

\* the classes of the claim: half-open bins, an edge belongs to the upper band
HalfOpenClass(x) ==
    IF Le(R(0), x) /\ Lt(x, R(2)) THEN "Very Low"
    ELSE IF Le(R(2), x) /\ Lt(x, R(4)) THEN "Low"
    ELSE IF Le(R(4), x) /\ Lt(x, R(6)) THEN "Medium"
    ELSE IF Le(R(6), x) /\ Lt(x, R(8)) THEN "High"
    ELSE "Very High"

\* the classes of the code: an edge belongs to the lower band, 0 to the lowest
RightClosedClass(x) ==
    IF Le(R(0), x) /\ Le(x, R(2)) THEN "Very Low"
    ELSE IF Lt(R(2), x) /\ Le(x, R(4)) THEN "Low"
    ELSE IF Lt(R(4), x) /\ Le(x, R(6)) THEN "Medium"
    ELSE IF Lt(R(6), x) /\ Le(x, R(8)) THEN "High"
    ELSE "Very High"

InRange(x) == Le(R(0), x) /\ Le(x, R(10))

Classified == Len(cutting_grid.priority_class) > 0

\* C2 (as claimed): every final normalized priority in [0,10] is classified by
\* the half-open bins [0,2) [2,4) [4,6) [6,8) [8,10], so that exactly 2.0 is
\* Low, 4.0 Medium, 6.0 High and 8.0 Very High.
C2_HalfOpenBins ==
    Classified =>
        \A c \in GridCells(cutting_grid) :
            InRange(cutting_grid.priority_normalized[c]) =>
                cutting_grid.priority_class[c] =
                    HalfOpenClass(cutting_grid.priority_normalized[c])

\* C2 (amended): every final normalized priority in [0,10] gets exactly one
\* class, by the bins [0,2] (2,4] (4,6] (6,8] (8,10]: an edge belongs to the
\* lower band (2.0 is Very Low, 4.0 Low, 6.0 Medium, 8.0 High).
C2_RightClosedBins ==
    Classified =>
        \A c \in GridCells(cutting_grid) :
            InRange(cutting_grid.priority_normalized[c]) =>
                /\ cutting_grid.priority_class[c] =
                       RightClosedClass(cutting_grid.priority_normalized[c])
                /\ Cardinality({k \in 1..Len(Labels) :
                       Labels[k] = cutting_grid.priority_class[c]}) = 1

\* a run has classified a priority of exactly 2.0, one of exactly 8.0 next to
\* a 0 and a 10
C2_Witness ==
    /\ pc = "done"
    /\ \E c \in GridCells(cutting_grid) :
          /\ cutting_grid.priority_normalized[c] = R(2)
          /\ cutting_grid.priority_class[c] = "Very Low"
    /\ \E c \in GridCells(cutting_grid) : cutting_grid.priority_normalized[c] = R(10)
    /\ \E c \in GridCells(cutting_grid) : cutting_grid.priority_normalized[c] = R(0)

\* C3: after calculate_overall_priority the ranks are dense: equal priorities
\* share a rank, a higher priority has a smaller rank, and the ranks in use
\* are exactly 1..k for k distinct priority values.
C3_DenseRanks ==
    pc = "done" =>
        LET cells == GridCells(cutting_grid)
            p == cutting_grid.priority_normalized
            rank == cutting_grid.priority_rank
        IN  /\ DOMAIN rank = cells
            /\ \A a, b \in cells : p[a] = p[b] => rank[a] = rank[b]
            /\ \A a, b \in cells : Lt(p[b], p[a]) => rank[a] < rank[b]
            /\ {rank[c] : c \in cells} = 1..Cardinality({p[c] : c \in cells})

\* a finished run in which two cells tie above a third
C3_Witness ==
    /\ pc = "done"
    /\ \E a, b, c \in GridCells(cutting_grid) :
          /\ a # b
          /\ cutting_grid.priority_normalized[a] = cutting_grid.priority_normalized[b]
          /\ Lt(cutting_grid.priority_normalized[c], cutting_grid.priority_normalized[a])
          /\ cutting_grid.priority_rank[a] = 1
          /\ cutting_grid.priority_rank[c] = 2

\* C7 (as claimed): degenerate geometry never makes a scorer fail on a
\* division: the run does not end in a division error, and a cell whose
\* overlaps with mortality features all have zero intersection area scores 0.
C7_NoDivisionFailure ==
    /\ err # "ZeroDivisionError"
    /\ Len(cutting_grid.score["tree_mortality"]) > 0 =>
          \A c \in GridCells(cutting_grid) :
              (\A i \in 1..Len(layers["tree_mortality"]) :
                   layers["tree_mortality"][i].iarea[c] = 0)
              => cutting_grid.score["tree_mortality"][c] = R(0)

\* every entry is a real number
RealSeq(vs) == \A i \in 1..Len(vs) : ~IsNaN(vs[i])

\* a non-empty sequence of real scores whose minimum differs from its maximum
C4_Case(c) ==
    /\ c.fn = "_normalize_score"
    /\ Len(c.values) > 0
    /\ RealSeq(c.values)
    /\ \E i, j \in 1..Len(c.values) : c.values[i] # c.values[j]

\* what a call in the case of C4 must return
C4_Step ==
    (C4_Case(call) /\ ~call.done /\ call'.done) =>
        LET vs == call.values
            n == Len(vs)
            out == call'.ret
            IsMin(i) == \A j \in 1..n : Le(vs[i], vs[j])
            IsMax(i) == \A j \in 1..n : Le(vs[j], vs[i])
        IN  /\ call'.values = vs
            /\ Len(out) = n
            /\ \A i \in 1..n : Le(R(0), out[i]) /\ Le(out[i], R(10))
            /\ \A i, j \in 1..n :
                  Lt(vs[i], vs[j]) =>
                      IF call.inverse THEN Le(out[j], out[i]) ELSE Le(out[i], out[j])
            /\ \A i \in 1..n :
                  IsMin(i) => out[i] = IF call.inverse THEN R(10) ELSE R(0)
            /\ \A i \in 1..n :
                  IsMax(i) => out[i] = IF call.inverse THEN R(0) ELSE R(10)

OthersShare(grid, w, f, c) ==
    LET share(g) == IF g = f THEN R(0) ELSE Mul(grid.norm[g][c], w[g])
    IN  Add(Add(Add(Add(share("tree_mortality"), share("community_features")),
                    share("egress_routes")), share("populated_areas")),
            share("electric_utilities"))

\* C5: for every constant-valued score sequence (one element included), with
\* or without the inverse flag, every output of _normalize_score is exactly
\* 5.0, and the empty sequence gives the empty sequence; a factor whose raw
\* score is the same for all cells contributes 5.0 times its weight to every
\* cell's overall raw priority.
C5_FlatIsFive ==
    /\ (call.fn = "_normalize_score" /\ call.done) =>
          /\ call.values = <<>> => call.ret = <<>>
          /\ (/\ Len(call.values) > 0
              /\ RealSeq(call.values)
              /\ \A i, j \in 1..Len(call.values) : call.values[i] = call.values[j])
             => /\ Len(call.ret) = Len(call.values)
                /\ \A i \in 1..Len(call.ret) : call.ret[i] = R(5)
    /\ Len(cutting_grid.overall_priority) > 0 =>
          \A f \in Factors :
              (/\ RealSeq(cutting_grid.score[f])
               /\ \A a, b \in GridCells(cutting_grid) :
                     cutting_grid.score[f][a] = cutting_grid.score[f][b])
              => \A c \in GridCells(cutting_grid) :
                     cutting_grid.overall_priority[c] =
                         Add(Mul(R(5), weights[f]),
                             OthersShare(cutting_grid, weights, f, c))

\* an inverse call on a constant sequence of two or more scores is done
C5_Witness ==
    /\ call.fn = "_normalize_score"
    /\ call.done
    /\ call.inverse
    /\ Len(call.values) >= 2
    /\ RealSeq(call.values)
    /\ \A i, j \in 1..Len(call.values) : call.values[i] = call.values[j]
    /\ \A i \in 1..Len(call.ret) : call.ret[i] = R(5)

\* the value the claim resolves: the first column, in row order, whose name
\* matches a token and whose value is a number; the default when there is none
ClaimedMagnitude(attrs, tokens, default) ==
    LET candidates == {i \in 1..Len(attrs) :
                          /\ NameMatches(attrs[i].name, tokens)
                          /\ attrs[i].value.kind = "num"}
    IN  IF candidates = {} THEN default
        ELSE attrs[CHOOSE i \in candidates : \A j \in candidates : i <= j].value.val

\* C6 (as claimed): the magnitude a scorer resolves is the first matching
\* column's numeric value, and the factor default (0 for mortality, 10 for the
\* others) when no column matches or every matching value is missing or no
\* number; the magnitude is never a non-numeric value.
C6_NumberOrDefault ==
    (call.fn \in Resolvers /\ call.done) =>
        /\ ~IsNaN(call.ret[1])
        /\ call.ret[1] =
              CASE call.fn = "mortality_value" ->
                       ClaimedMagnitude(call.attrs, MortalityTokens, R(0))
                [] call.fn = "importance" ->
                       ClaimedMagnitude(call.attrs, CommunityTokens, R(10))
                [] call.fn = "priority" ->
                       ClaimedMagnitude(call.attrs, EgressTokens, R(10))
                [] call.fn = "pop_density" ->
                       ClaimedMagnitude(call.attrs, PopulationTokens, R(10))

\* the helper called directly, or the analysis run
SpecFlat == (Init \/ InitNormalize) /\ [][Next \/ NormalizeScoreCall]_vars

\* the scorer of factor f has written its columns
Scored(f) == Len(cutting_grid.score[f]) > 0

RECURSIVE SumSeq(_)
SumSeq(xs) == IF xs = <<>> THEN R(0) ELSE Add(xs[1], SumSeq(Tail(xs)))

\* C8 (as claimed): a cell's raw mortality score is the area-weighted average
\* of the magnitudes (the first matching numeric column, else 0) of the
\* mortality features that intersect it, 0 when none intersects or the total
\* intersection area is zero, and so lies between the smallest and the
\* largest magnitude of the features overlapping it with positive area.
C8_AreaWeightedAverage ==
    Scored("tree_mortality") =>
        \A c \in GridCells(cutting_grid) :
            LET layer == layers["tree_mortality"]
                score == cutting_grid.score["tree_mortality"][c]
                hit(i) == Intersects(layer[i], c)
                magnitude(i) == ClaimedMagnitude(layer[i].attrs, MortalityTokens, R(0))
                areas == [i \in 1..Len(layer) |->
                            IF hit(i) THEN R(layer[i].iarea[c]) ELSE R(0)]
                products == [i \in 1..Len(layer) |-> Mul(magnitude(i), areas[i])]
                positive == {i \in 1..Len(layer) : hit(i) /\ layer[i].iarea[c] > 0}
            IN  /\ score = IF SumSeq(areas) = R(0) THEN R(0)
                           ELSE Div(SumSeq(products), SumSeq(areas))
                /\ positive # {} =>
                      /\ \E i \in positive : Le(magnitude(i), score)
                      /\ \E i \in positive : Le(score, magnitude(i))

\* the contribution the claim gives a feature of magnitude m at distance d
ClaimedContribution(m, d, near, far) ==
    IF d = 0 THEN m
    ELSE IF d < near THEN Mul(m, Sub(R(1), Rat(d, near)))
    ELSE IF d < far THEN Mul(Mul(m, Rat(1, 2)), Sub(R(1), Rat(d - near, far - near)))
    ELSE R(0)

\* the fixed magnitudes the claim gives the utility layers
ClaimedBasePriority(l) ==
    CASE l = "transmission" -> 10 [] l = "substations" -> 10
      [] l = "sub_transmission" -> 8 [] l = "pole_top_subs" -> 7
      [] l = "dist_circuits" -> 6

\* the utility features of the run: <<layer, index in the layer>>
UtilityRows(ls) ==
    UNION {{<<l, i>> : i \in 1..Len(ls[l])} : l \in UtilityLayerNames}

\* the base priority the code gives layer l
BasePriorityOf(l) ==
    UtilityLayers[CHOOSE k \in 1..Len(UtilityLayers) :
                      UtilityLayers[k].layer = l].base_priority

\* C9: in the community, egress and utility scorers a feature of magnitude m at
\* distance d contributes m at d = 0, m(1 - d/near) for 0 < d < near,
\* 0.5 m (1 - (d - near)/(far - near)) for near <= d < far and 0 from far on,
\* with (near, far) = (100, 300), (50, 150) and (30, 100), and the utility
\* magnitudes 10, 10, 8, 7, 6; a cell with one such feature of non-negative
\* magnitude has that contribution as its raw score.
C9_DecayContribution ==
    /\ Scored("community_features") =>
          LET layer == layers["community_features"] IN
          \A c \in GridCells(cutting_grid) :
              /\ \A i \in 1..Len(layer) :
                    CommunityFeatureScore(layer[i], c) =
                        ClaimedContribution(Importance(layer[i].attrs),
                                            layer[i].dist[c], 100, 300)
              /\ (Len(layer) = 1 /\ Le(R(0), Importance(layer[1].attrs))) =>
                    cutting_grid.score["community_features"][c] =
                        ClaimedContribution(Importance(layer[1].attrs),
                                            layer[1].dist[c], 100, 300)
    /\ Scored("egress_routes") =>
          LET layer == layers["egress_routes"] IN
          \A c \in GridCells(cutting_grid) :
              /\ \A i \in 1..Len(layer) :
                    EgressRouteScore(layer[i], c) =
                        ClaimedContribution(RoutePriority(layer[i].attrs),
                                            layer[i].dist[c], 50, 150)
              /\ (Len(layer) = 1 /\ Le(R(0), RoutePriority(layer[1].attrs))) =>
                    cutting_grid.score["egress_routes"][c] =
                        ClaimedContribution(RoutePriority(layer[1].attrs),
                                            layer[1].dist[c], 50, 150)
    /\ Scored("electric_utilities") =>
          \A c \in GridCells(cutting_grid) :
              /\ \A r \in UtilityRows(layers) :
                    UtilityFeatureScore(layers[r[1]][r[2]], BasePriorityOf(r[1]), c) =
                        ClaimedContribution(R(ClaimedBasePriority(r[1])),
                                            layers[r[1]][r[2]].dist[c], 30, 100)
              /\ \A r \in UtilityRows(layers) :
                    UtilityRows(layers) = {r} =>
                        cutting_grid.score["electric_utilities"][c] =
                            ClaimedContribution(R(ClaimedBasePriority(r[1])),
                                                layers[r[1]][r[2]].dist[c], 30, 100)

\* the egress scorer has scored a cell 25 m from the only route, of priority
\* 10, with 5.0, and a cell 100 m from it with 2.5
C9_Witness ==
    /\ Scored("egress_routes")
    /\ Len(layers["egress_routes"]) = 1
    /\ RoutePriority(layers["egress_routes"][1].attrs) = R(10)
    /\ \E c \in GridCells(cutting_grid) :
          /\ layers["egress_routes"][1].dist[c] = 25
          /\ cutting_grid.score["egress_routes"][c] = R(5)
    /\ \E c \in GridCells(cutting_grid) :
          /\ layers["egress_routes"][1].dist[c] = 100
          /\ cutting_grid.score["egress_routes"][c] = Rat(5, 2)

\* the contributions of all features of a proximity factor to cell c
Contributions(f, c) ==
    CASE f = "community_features" ->
           {CommunityFeatureScore(layers[f][i], c) : i \in 1..Len(layers[f])}
      [] f = "egress_routes" ->
           {EgressRouteScore(layers[f][i], c) : i \in 1..Len(layers[f])}
      [] f = "electric_utilities" ->
           {UtilityFeatureScore(layers[r[1]][r[2]], BasePriorityOf(r[1]), c) :
               r \in UtilityRows(layers)}

ProximityFactors == {"community_features", "egress_routes", "electric_utilities"}

\* C10 (as claimed): a cell's raw community, egress or utility score equals
\* the maximum of the per-feature contributions, for every resolved magnitude,
\* negative ones included.
C10_MaxOfContributions ==
    \A f \in ProximityFactors :
        Scored(f) =>
            \A c \in GridCells(cutting_grid) :
                LET cs == {x \in Contributions(f, c) : ~IsNaN(x)} IN
                cs # {} =>
                    /\ cutting_grid.score[f][c] \in cs
                    /\ \A x \in cs : Le(x, cutting_grid.score[f][c])

\* the layer of a proximity scorer without its last feature
WithoutLast(layer) == SubSeq(layer, 1, Len(layer) - 1)

\* C10 (amended): a cell's raw community, egress or utility score equals the
\* largest of 0 and the per-feature contributions (a NaN contribution is
\* passed over), so it is 0 for an empty layer and when every contribution is
\* negative; contributions never accumulate, and a feature whose contribution
\* does not exceed the maximum of the features before it leaves the score as
\* it was.
C10_MaxWithFloor ==
    /\ \A f \in ProximityFactors :
          Scored(f) =>
              \A c \in GridCells(cutting_grid) :
                  LET cs == {x \in Contributions(f, c) : ~IsNaN(x)} \cup {R(0)} IN
                  /\ cutting_grid.score[f][c] \in cs
                  /\ \A x \in cs : Le(x, cutting_grid.score[f][c])
    /\ (Scored("community_features") /\ Len(layers["community_features"]) > 0) =>
          LET layer == layers["community_features"] IN
          \A c \in GridCells(cutting_grid) :
              ~Lt(CommunityCellScore(WithoutLast(layer), c),
                  CommunityFeatureScore(layer[Len(layer)], c))
              => cutting_grid.score["community_features"][c] =
                     CommunityCellScore(WithoutLast(layer), c)
    /\ (Scored("egress_routes") /\ Len(layers["egress_routes"]) > 0) =>
          LET layer == layers["egress_routes"] IN
          \A c \in GridCells(cutting_grid) :
              ~Lt(EgressCellScore(WithoutLast(layer), c),
                  EgressRouteScore(layer[Len(layer)], c))
              => cutting_grid.score["egress_routes"][c] =
                     EgressCellScore(WithoutLast(layer), c)

\* the community scorer has scored a cell near two features with different
\* positive contributions with the larger one, not with their sum
C10_Witness ==
    /\ Scored("community_features")
    /\ Len(layers["community_features"]) = 2
    /\ \E c \in GridCells(cutting_grid) :
          LET a == CommunityFeatureScore(layers["community_features"][1], c)
              b == CommunityFeatureScore(layers["community_features"][2], c)
          IN  /\ Lt(R(0), a) /\ Lt(a, b)
              /\ cutting_grid.score["community_features"][c] = b

----------------------------------------------------------------------------
(* calculate_population_score on its own, after load_data *)

DensityRows == {<<GeometryColumn>>,
                <<[name |-> <<"P","O","P","_","D","E","N","S">>, value |-> Num(R(6))], GeometryColumn>>,
                <<[name |-> <<"P","O","P","_","D","E","N","S">>, value |-> Num(R(4))], GeometryColumn>>,
                <<[name |-> <<"P","O","P","_","D","E","N","S">>, value |-> NanValue], GeometryColumn>>}

\* apart, touching in a point, covering the cell, covering half of it
PopulationPlaces == <<Away(400), Overlap(0), Overlap(100), Overlap(50)>>

PopulationFeatures ==
    {Placed(row, PopulationPlaces, g, NCells) :
        row \in DensityRows, g \in 1..Len(PopulationPlaces)}

\* the intersection of a feature with a cell is no larger than the cell
Clip(feature, area) ==
    [feature EXCEPT !.iarea = [c \in DOMAIN area |->
        IF feature.iarea[c] > area[c] THEN area[c] ELSE feature.iarea[c]]]

InitPopulation ==
    /\ pc = "population"
    /\ err = ""
    /\ weights = DefaultWeights
    /\ call = NoCall
    /\ \E area \in Grids :
          /\ cutting_grid = [NoGrid EXCEPT !.area = area]
          /\ \E layer \in SeqsUpTo(PopulationFeatures, MaxFeatures) :
                layers = [NoLayers EXCEPT !["populated_areas"] =
                             [i \in 1..Len(layer) |-> Clip(layer[i], area)]]

SpecPopulation == InitPopulation /\ [][CalculatePopulationScore]_vars

\* C11: a cell's raw population score is the sum, over the populated areas
\* that intersect it, of intersection area / cell area times the area's
\* resolved density; the contributions of several areas accumulate, and a cell
\* that intersects no populated area scores 0.
C11_RatioTimesDensitySum ==
    Scored("populated_areas") =>
        \A c \in GridCells(cutting_grid) :
            LET layer == layers["populated_areas"]
                score == cutting_grid.score["populated_areas"][c]
                hit(i) == Intersects(layer[i], c)
                terms == [i \in 1..Len(layer) |->
                            IF hit(i)
                            THEN Mul(Rat(layer[i].iarea[c], cutting_grid.area[c]),
                                     PopDensity(layer[i].attrs))
                            ELSE R(0)]
            IN  /\ score = SumSeq(terms)
                /\ (\A i \in 1..Len(layer) : ~hit(i)) => score = R(0)

\* a cell fully covered by a density-6 area and half covered by a density-4
\* area has been scored 8.0
C11_Witness ==
    /\ Scored("populated_areas")
    /\ Len(layers["populated_areas"]) = 2
    /\ \E c \in GridCells(cutting_grid) :
          /\ cutting_grid.area[c] = 100
          /\ \E i, j \in 1..2 :
                /\ layers["populated_areas"][i].iarea[c] = 100
                /\ PopDensity(layers["populated_areas"][i].attrs) = R(6)
                /\ layers["populated_areas"][j].iarea[c] = 50
                /\ PopDensity(layers["populated_areas"][j].attrs) = R(4)
          /\ cutting_grid.score["populated_areas"][c] = R(8)

----------------------------------------------------------------------------
(* The distance-based score of one feature, seen from two distances *)

\* distances (m) at, just below and just above the radii of the three scorers
Distances == {0, 1, 15, 29, 30, 31, 49, 50, 51, 65, 99, 100, 101, 149, 150,
              151, 200, 299, 300, 301}

\* the scorers with a distance-based score: community, egress and one per
\* utility layer
DecayScorers == {"community_score", "egress_score"} \cup UtilityLayerNames

\* rows of positive magnitude: the default 10 and a value of 7
PositiveRows(fn) ==
    CASE fn = "community_score" ->
           {<<GeometryColumn>>,
            <<[name |-> <<"I","M","P","O","R","T">>, value |-> Num(R(7))], GeometryColumn>>}
      [] fn = "egress_score" ->
           {<<GeometryColumn>>,
            <<[name |-> <<"C","l","a","s","s">>, value |-> Num(R(7))], GeometryColumn>>}
      [] OTHER -> {<<GeometryColumn>>}

\* the magnitude of the feature of a call
MagnitudeOf(fn, attrs) ==
    CASE fn = "community_score" -> Importance(attrs)
      [] fn = "egress_score" -> RoutePriority(attrs)
      [] OTHER -> R(BasePriorityOf(fn))

\* the score of a feature for the cell c, by the scorer fn
DecayScore(fn, feature, c) ==
    CASE fn = "community_score" -> CommunityFeatureScore(feature, c)
      [] fn = "egress_score" -> EgressRouteScore(feature, c)
      [] OTHER -> UtilityFeatureScore(feature, BasePriorityOf(fn), c)

\* one feature and two cells, the first no farther from it than the second
InitDecay ==
    /\ pc = "call"
    /\ err = ""
    /\ weights = DefaultWeights
    /\ layers = NoLayers
    /\ cutting_grid = NoGrid
    /\ \E fn \in DecayScorers : \E attrs \in PositiveRows(fn) :
       \E d1, d2 \in Distances :
          /\ d1 <= d2
          /\ call = [NoCall EXCEPT !.fn = fn, !.attrs = attrs,
                                   !.values = <<R(d1), R(d2)>>]

\* the score of the feature for each of the two cells
DecayScoreCall ==
    /\ pc = "call"
    /\ call.fn \in DecayScorers
    /\ ~call.done
    /\ LET feature == [attrs |-> call.attrs,
                       dist  |-> [c \in 1..2 |-> call.values[c][1]],
                       iarea |-> [c \in 1..2 |-> 0]]
       IN  call' = [call EXCEPT !.ret = [c \in 1..2 |-> DecayScore(call.fn, feature, c)],
                                !.done = TRUE]
    /\ UNCHANGED <<pc, err, weights, layers, cutting_grid>>

SpecDecay == InitDecay /\ [][DecayScoreCall]_vars

\* C14 (as claimed): for a fixed positive magnitude the contribution of a
\* feature never increases with its distance from the cell: for d1 <= d2 the
\* contribution at d1 is at least the contribution at d2, across the near
\* radius too.
C14_NeverIncreasesWithDistance ==
    (call.fn \in DecayScorers /\ call.done
       /\ Lt(R(0), MagnitudeOf(call.fn, call.attrs))
       /\ Le(call.values[1], call.values[2]))
    => Le(call.ret[2], call.ret[1])

----------------------------------------------------------------------------
(* The order of the phases of run_analysis *)

\* the column holds a value for every grid cell
Complete(column) == Len(column) = Len(cutting_grid.area) /\ Len(column) > 0

\* C12: in every run of run_analysis a factor is normalized only once its raw
\* score is there for every grid cell (its normalized column is the
\* normalization of the complete raw column), and the weighted sum, the final
\* normalization, the classes and the ranks are computed only once all five
\* normalized factor scores are there for every cell; no overall priority
\* comes from a missing or partly written factor score.
C12_Barriers ==
    /\ \A f \in Factors :
          Len(cutting_grid.norm[f]) > 0 =>
              /\ Complete(cutting_grid.score[f])
              /\ Complete(cutting_grid.norm[f])
              /\ cutting_grid.norm[f] = NormalizeScore(cutting_grid.score[f], FALSE)
    /\ pc \in {"overall", "done"} =>
          \A f \in Factors : Complete(cutting_grid.norm[f])
    /\ Len(cutting_grid.overall_priority) > 0 =>
          /\ \A f \in Factors : Complete(cutting_grid.norm[f])
          /\ Complete(cutting_grid.overall_priority)
          /\ Complete(cutting_grid.priority_normalized)
          /\ Complete(cutting_grid.priority_class)
          /\ cutting_grid.overall_priority =
                [c \in GridCells(cutting_grid) |-> WeightedSum(cutting_grid, weights, c)]
    /\ Len(cutting_grid.priority_rank) > 0 =>
          /\ Complete(cutting_grid.priority_rank)
          /\ Complete(cutting_grid.overall_priority)

\* a run has finished with different overall priorities, every column complete
C12_Witness ==
    /\ pc = "done"
    /\ \A f \in Factors : Complete(cutting_grid.score[f]) /\ Complete(cutting_grid.norm[f])
    /\ Complete(cutting_grid.priority_rank)
    /\ \E a, b \in GridCells(cutting_grid) :
          Lt(cutting_grid.overall_priority[a], cutting_grid.overall_priority[b])

----------------------------------------------------------------------------
(* The five scorers called in any order *)

\* the raw scores the scorer of factor f computes from the grid and the layers
FactorColumn(f, grid, ls) ==
    [c \in GridCells(grid) |->
        CASE f = "tree_mortality"     -> MortalityCellScore(ls[f], c)
          [] f = "community_features" -> CommunityCellScore(ls[f], c)
          [] f = "egress_routes"      -> EgressCellScore(ls[f], c)
          [] f = "populated_areas"    -> PopulationCellScore(ls[f], grid.area, c)
          [] f = "electric_utilities" -> UtilityCellScore(ls, c)]

\* one of the five calculate_*_score methods, called when its columns are
\* not there yet; calculate_overall_priority is due after the fifth
RunScorer(f) ==
    /\ pc = "scorers"
    /\ ~Scored(f)
    /\ IF f = "populated_areas"
          /\ \E c \in GridCells(cutting_grid) :
                ~PopulationDivides(layers[f], cutting_grid.area, c)
       THEN /\ cutting_grid' = cutting_grid
            /\ pc' = "error"
            /\ err' = "ZeroDivisionError"
       ELSE /\ cutting_grid' =
                  SetScores(cutting_grid, f, FactorColumn(f, cutting_grid, layers))
            /\ pc' = IF \A g \in Factors \ {f} : Scored(g)
                     THEN "overall" ELSE "scorers"
            /\ err' = err
    /\ UNCHANGED <<weights, layers, call>>

\* after load_data, with one feature in each layer but the mortality,
\* populated-area and utility layers, which vary
InitAnyOrder ==
    /\ pc = "scorers"
    /\ err = ""
    /\ weights = DefaultWeights
    /\ call = NoCall
    /\ \E area \in Grids :
       \E m \in MortalityRunLayers(area),
          p \in RunLayers(<<GeometryColumn>>, area),
          u \in UtilityRunLayers(area) :
          /\ cutting_grid = [NoGrid EXCEPT !.area = area]
          /\ layers = [l \in LayerNames |->
                CASE l = "tree_mortality"     -> m
                  [] l = "community_features" -> <<Covering(<<GeometryColumn>>, 2, area)>>
                  [] l = "egress_routes"      -> <<Covering(<<GeometryColumn>>, NCells, area)>>
                  [] l = "populated_areas"    -> p
                  [] OTHER                    -> u[l]]

SpecAnyOrder ==
    InitAnyOrder
    /\ [][(\E f \in Factors : RunScorer(f)) \/ CalculateOverallPriority]_vars

\* the columns are those the scorers that have run compute from the layers
\* and the grid, whatever ran before them
C13_Table ==
    /\ \A f \in Factors :
          IF Scored(f)
          THEN LET column == FactorColumn(f, cutting_grid, layers) IN
               /\ cutting_grid.score[f] = column
               /\ cutting_grid.norm[f] = NormalizeScore(column, FALSE)
          ELSE cutting_grid.score[f] = <<>> /\ cutting_grid.norm[f] = <<>>
    /\ pc = "done" =>
          LET cells == GridCells(cutting_grid)
              overall == [c \in cells |-> WeightedSum(cutting_grid, weights, c)]
              normalized == NormalizeScore(overall, FALSE)
          IN  /\ cutting_grid.overall_priority = overall
              /\ cutting_grid.priority_normalized = normalized
              /\ cutting_grid.priority_class = [c \in cells |-> PdCut(normalized[c])]
              /\ cutting_grid.priority_rank = [c \in cells |-> DenseRank(normalized, c)]

\* a step of a scorer leaves the cell geometries, the layers and the columns
\* of the other factors as they were
C13_Step ==
    /\ layers' = layers
    /\ cutting_grid'.area = cutting_grid.area
    /\ \A f \in Factors :
          Scored(f) => /\ cutting_grid'.score[f] = cutting_grid.score[f]
                       /\ cutting_grid'.norm[f] = cutting_grid.norm[f]

\* C13: each scorer writes only the raw and the normalized column of its own
\* factor and leaves the columns of the other four, the cell geometries and
\* the layers unchanged, so the five scorers run in any order before
\* calculate_overall_priority give the same final score table.
C13_Independent == []C13_Table /\ [][C13_Step]_vars

\* the utility and populated-area scorers have run before the three that
\* run_analysis calls first, and their columns are not constant
C13_Witness ==
    /\ pc = "scorers"
    /\ Scored("electric_utilities") /\ Scored("populated_areas")
    /\ ~Scored("tree_mortality") /\ ~Scored("community_features")
    /\ ~Scored("egress_routes")
    /\ \E a, b \in GridCells(cutting_grid) :
          /\ Lt(cutting_grid.score["electric_utilities"][a],
                cutting_grid.score["electric_utilities"][b])
          /\ Lt(cutting_grid.score["populated_areas"][a],
                cutting_grid.score["populated_areas"][b])

====
